---- MODULE Spec2Model ----
(***************************************************************************)
(* pyre-of-heroes: a decklist is read line by line, every line is resolved *)
(* to a Card through a process-wide cache and a remote lookup, with a      *)
(* bounded number of resolutions in flight, and the creatures are folded   *)
(* into a PodGraph whose edges are decided by a PodKind.                    *)
(*                                                                         *)
(* Strings are sequences of one-character strings.  Node indices are       *)
(* 1-based here (petgraph's are 0-based).  A cmc (f32) is an integer       *)
(* number of halves, so 3 stands for 1.5.                                  *)
(***************************************************************************)
EXTENDS Integers, Sequences, FiniteSets, TLC

VARIABLES
    input,      \* the lines of the decklist, as indices into Lines
    cap,        \* available_parallelism(), the argument of try_buffer_unordered
    kind,       \* the PodKind the graph is instantiated with
    pc,         \* per line: where its future (decklist.rs:107-115) stands
    card,       \* per line: the local `card` of fetch_card / the closure
    CACHE,      \* the OnceCell: "uninit", or the map inside the RwLock
    wlock,      \* the task holding the RwLock's write guard, 0 if none
    canonFile,  \* contents of CACHE_PATH
    tmpFile,    \* contents of CACHE_PATH_TMP
    pending,    \* writes handed to the blocking pool by write_all, not yet done
    g,          \* the PodGraph: [nodes, edges]
    run,        \* the state of main
    output,     \* contents of graph.dot
    hist        \* history: what each resolution did, for stating properties

vars == <<input, cap, kind, pc, card, CACHE, wlock, canonFile, tmpFile,
          pending, g, run, output, hist>>

\* ---------------------------------------------------------------- bounds
MaxLines == 2
MaxCap == 2
MaxNodes == 3
MaxLen == 4
MaxCmc == 3

\* ---------------------------------------------------------------- strings
Space == " "
Whitespace == {" ", "\t"}
AsciiDigits == {"0", "1", "2", "3", "4", "5", "6", "7", "8", "9"}
\* U+2014 EM DASH, written "_" here: the module is ASCII.
EmDash == "_"
Dash == <<EmDash>>

RECURSIVE TrimStart(_)
TrimStart(s) ==
    IF s # <<>> /\ Head(s) \in Whitespace THEN TrimStart(Tail(s)) ELSE s

RECURSIVE TrimEnd(_)
TrimEnd(s) ==
    IF s # <<>> /\ s[Len(s)] \in Whitespace
    THEN TrimEnd(SubSeq(s, 1, Len(s) - 1)) ELSE s

Trim(s) == TrimEnd(TrimStart(s))

\* Iterator::take_while on a by_ref iterator: the elements satisfying the
\* predicate are consumed, and so is the first element that fails it.
RECURSIVE TakeWhileDigits(_)
TakeWhileDigits(s) ==
    IF s = <<>> THEN <<>>
    ELSE IF Head(s) \in AsciiDigits THEN TakeWhileDigits(Tail(s))
    ELSE Tail(s)

card_name_trimmer(line) ==
    LET s == Trim(line) IN
    IF s # <<>> /\ Head(s) \in AsciiDigits
    THEN Trim(TakeWhileDigits(s))
    ELSE s

\* str::split(' '): the pieces between single spaces, empty pieces included.
RECURSIVE SplitFrom(_, _)
SplitFrom(s, cur) ==
    IF s = <<>> THEN <<cur>>
    ELSE IF Head(s) = Space THEN <<cur>> \o SplitFrom(Tail(s), <<>>)
    ELSE SplitFrom(Tail(s), Append(cur, Head(s)))

SplitSpaces(s) == SplitFrom(s, <<>>)

\* ---------------------------------------------------------------- cmc
\* Option<T>: None is the empty sequence, Some(x) the sequence holding x.
None == <<>>
Some(x) == <<x>>
Unwrap(o) == o[1]
U16Max == 65535
U8Max == 255

\* `f as u16`: truncation toward zero, saturating at the ends of u16.
AsU16(f2) ==
    IF f2 < 0 THEN 0
    ELSE IF f2 \div 2 > U16Max THEN U16Max ELSE f2 \div 2

\* `lower + 1` in u16: past U16Max it panics when the build checks overflow,
\* and wraps to 0 when it does not.
AddOverflows(f2) == AsU16(f2) + 1 > U16Max

cmc_f32_to_u8Floor(f2) ==
    LET lower == AsU16(f2)
    IN  IF lower <= U8Max THEN Some(lower) ELSE None

cmc_f32_to_u8(f2) ==
    LET lower == AsU16(f2)
        upper == (lower + 1) % (U16Max + 1)
    IN  IF f2 > 2 * lower /\ f2 < 2 * upper THEN None
        ELSE IF lower <= U8Max THEN Some(lower) ELSE None

\* ---------------------------------------------------------------- data
Creature == <<"C", "r", "e", "a", "t", "u", "r", "e">>
Goblin == <<"G", "o", "b", "l", "i", "n">>
Elf == <<"E", "l", "f">>
Druid == <<"D", "r", "u", "i", "d">>
Instant == <<"I", "n", "s", "t", "a", "n", "t">>
Llanowar == <<"L", "l", "a", "n", "o", "w", "a", "r">>
Bolt == <<"B", "o", "l", "t">>
GoblinMatron == Goblin \o <<" ", "M", "a", "t", "r", "o", "n">>
GoblinChieftain == Goblin \o <<" ", "C", "h", "i", "e", "f", "t", "a", "i", "n">>
LlanowarElves == Llanowar \o <<" ", "E", "l", "v", "e", "s">>
LightningBolt == <<"L", "i", "g", "h", "t", "n", "i", "n", "g", " ">> \o Bolt
LittleGirl == <<"L", "i", "t", "t", "l", "e", " ", "G", "i", "r", "l">>

\* The decklist lines the model reads.
Lines ==
    << <<"1", " ">> \o GoblinMatron,
       <<"1", " ">> \o GoblinChieftain,
       <<" ">> \o Llanowar \o <<" ">>,
       <<"4", " ">> \o Bolt,
       LittleGirl >>

LineIds == 1..Len(Lines)

\* scryfall::Card::named_fuzzy: the record the service holds for a name, or
\* None (not found).  A cmc is in halves: 4 is 2.0 and 1 is 0.5.
named_fuzzy(name) ==
    IF name = GoblinMatron THEN
        Some([name |-> GoblinMatron,
              type_line |-> Some(Creature \o <<" ">> \o Goblin), cmc |-> Some(4)])
    ELSE IF name = GoblinChieftain THEN
        Some([name |-> GoblinChieftain,
              type_line |-> Some(Creature \o <<" ">> \o Goblin), cmc |-> Some(6)])
    ELSE IF name = Llanowar THEN
        Some([name |-> LlanowarElves,
              type_line |-> Some(Creature \o <<" ", EmDash, " ">> \o Elf \o <<" ">> \o Druid),
              cmc |-> Some(2)])
    ELSE IF name = Bolt THEN
        Some([name |-> LightningBolt, type_line |-> Some(Instant), cmc |-> Some(2)])
    ELSE IF name = LittleGirl THEN
        Some([name |-> LittleGirl,
              type_line |-> Some(Creature \o <<" ", EmDash, " ">> \o <<"H", "u", "m", "a", "n">>),
              cmc |-> Some(1)])
    ELSE None

\* ---------------------------------------------------------------- graph
\* The unit edge kind; its Display writes nothing.
NoInfo == <<>>
PodKinds == {"BirthingPod", "PyreOfHeroes"}

BirthingPodCheckWrapping(new, existing) ==
    LET d == (new.cmc - existing.cmc) % (U8Max + 1) IN
    IF d = U8Max THEN Some([edge |-> NoInfo, dir |-> "To"])
    ELSE IF d = 1 THEN Some([edge |-> NoInfo, dir |-> "From"])
    ELSE None

BirthingPodCheckAlwaysFrom(new, existing) ==
    LET d == new.cmc - existing.cmc IN
    IF d = -1 \/ d = 1 THEN Some([edge |-> NoInfo, dir |-> "From"]) ELSE None

BirthingPodCheckSwapped(new, existing) ==
    LET d == new.cmc - existing.cmc IN
    IF d = -1 THEN Some([edge |-> NoInfo, dir |-> "From"])
    ELSE IF d = 1 THEN Some([edge |-> NoInfo, dir |-> "To"])
    ELSE None

BirthingPodCheck(new, existing) ==
    LET d == new.cmc - existing.cmc IN
    IF d = -1 THEN Some([edge |-> NoInfo, dir |-> "To"])
    ELSE IF d = 1 THEN Some([edge |-> NoInfo, dir |-> "From"])
    ELSE None

Contains(types, t) == \E j \in 1..Len(types) : types[j] = t

FindSharedLast(new, existing) ==
    LET hits == {i \in 1..Len(new.types) : Contains(existing.types, new.types[i])}
    IN  IF hits = {} THEN None
        ELSE Some(new.types[CHOOSE i \in hits : \A j \in hits : i >= j])

\* new.types.iter().find(|t| existing.types.contains(t))
FindShared(new, existing) ==
    LET hits == {i \in 1..Len(new.types) : Contains(existing.types, new.types[i])}
    IN  IF hits = {} THEN None
        ELSE Some(new.types[CHOOSE i \in hits : \A j \in hits : i <= j])

PyreOfHeroesCheckUngated(new, existing) ==
    LET ty == FindShared(new, existing)
        t == BirthingPodCheck(new, existing)
    IN  IF t = None THEN None
        ELSE Some([edge |-> IF ty = None THEN <<>> ELSE Unwrap(ty), dir |-> Unwrap(t).dir])

PyreOfHeroesCheck(new, existing) ==
    LET ty == FindShared(new, existing) IN
    IF ty # None THEN
        LET t == BirthingPodCheck(new, existing) IN
        IF t = None THEN None ELSE Some([edge |-> Unwrap(ty), dir |-> Unwrap(t).dir])
    ELSE None

Check(k, new, existing) ==
    IF k = "BirthingPod" THEN BirthingPodCheck(new, existing)
    ELSE PyreOfHeroesCheck(new, existing)

EmptyGraph == [nodes |-> <<>>, edges |-> <<>>]

\* The edges add_card adds for the new node `node`, in node-index order.
RECURSIVE LinkEdges(_, _, _, _, _)
LinkEdges(k, nodes, c, node, n) ==
    IF n > Len(nodes) THEN <<>>
    ELSE LET link == Check(k, c, nodes[n])
             rest == LinkEdges(k, nodes, c, node, n + 1)
         IN  IF link = None THEN rest
             ELSE IF Unwrap(link).dir = "From"
                  THEN <<[from |-> n, to |-> node, edge |-> Unwrap(link).edge]>> \o rest
                  ELSE <<[from |-> node, to |-> n, edge |-> Unwrap(link).edge]>> \o rest

add_cardStaleIndex(k, gr, c) ==
    LET node == Len(gr.nodes) IN
    [nodes |-> Append(gr.nodes, c),
     edges |-> gr.edges \o LinkEdges(k, gr.nodes, c, node, 1)]

add_card(k, gr, c) ==
    LET node == Len(gr.nodes) + 1 IN
    [nodes |-> Append(gr.nodes, c),
     edges |-> gr.edges \o LinkEdges(k, gr.nodes, c, node, 1)]

\* ---------------------------------------------------------------- cache
\* A Cache (HashMap<String, Card>) is a set of [key, value] with unique keys.
Insert(m, k, v) == {e \in m : e.key # k} \cup {[key |-> k, value |-> v]}

Get(m, k) ==
    LET hits == {e \in m : e.key = k} IN
    IF hits = {} THEN None ELSE Some((CHOOSE e \in hits : TRUE).value)

\* The key a Card is cached under and looked up by: the requested name.
CacheKeyCardName(name, c) == c.name
CacheKey(name, c) == name

\* File contents: no file, bytes that are no Cache, the strict prefix of a
\* serialized Cache (the empty file included), or a whole serialized Cache.
Absent == [st |-> "absent", map |-> {}]
Corrupt == [st |-> "corrupt", map |-> {}]
Partial == [st |-> "partial", map |-> {}]
Snapshot(m) == [st |-> "snapshot", map |-> m]

\* cache(): the results the load at first use can have, None for Err.  A
\* missing file is an empty Cache; a read can fail; bytes that are no Cache
\* fail to deserialize.
CacheLoad(file) ==
    IF file.st = "absent" THEN {Some({})}
    ELSE IF file.st = "snapshot" THEN {Some(file.map), None}
    ELSE {None}

\* fetch_card, after named_fuzzy: the Card built from the record, None where
\* the code panics (no cmc, or a cmc cmc_f32_to_u8 rejects).
Resolve(rec) ==
    LET types == IF rec.type_line = None THEN <<>>
                 ELSE SplitSpaces(Unwrap(rec.type_line))
        cmc == IF rec.cmc = None THEN None ELSE cmc_f32_to_u8(Unwrap(rec.cmc))
    IN  IF cmc = None THEN None
        ELSE Some([name |-> rec.name, cmc |-> Unwrap(cmc), types |-> types])

\* parse's closure on a fetched card: None unless it is a Creature; the types
\* up to and including the first dash are drained.
Position(types, t) ==
    LET hits == {i \in 1..Len(types) : types[i] = t} IN
    IF hits = {} THEN 0 ELSE CHOOSE i \in hits : \A j \in hits : i <= j

EmitKeepDash(c) ==
    IF Contains(c.types, Creature) THEN
        LET dash == Position(c.types, Dash) IN
        Some([c EXCEPT !.types =
                  IF dash = 0 THEN @ ELSE SubSeq(@, dash, Len(@))])
    ELSE None

Emit(c) ==
    IF Contains(c.types, Creature) THEN
        LET dash == Position(c.types, Dash) IN
        Some([c EXCEPT !.types =
                  IF dash = 0 THEN @ ELSE SubSeq(@, dash + 1, Len(@))])
    ELSE None

\* ---------------------------------------------------------------- pipeline
TaskIds == 1..Len(input)
\* The trimmed name of every line of Lines.
TrimmedLines == [i \in LineIds |-> card_name_trimmer(Lines[i])]
Name(t) == TrimmedLines[input[t]]
InFlight == Cardinality({t \in TaskIds : pc[t] \notin {"idle", "done"}})

\* try_buffer_unordered(n) takes another future while fewer than n are held.
HasRoomOffByOne(n, max) == n <= max
HasRoom(n, max) == n < max

\* try_filter_map and the fold's closure on an Ok item of the stream.
TryFold(k, gr, c) ==
    LET e == Emit(c) IN
    IF e = None THEN gr ELSE add_card(k, gr, Unwrap(e))

\* What fetch_card returns when store_in_cache gave Err: the card, the error
\* only being logged.  None stands for Err.
AfterStoreErrPropagate(c) == None
AfterStoreErr(c) == Some(c)

\* What the run becomes when the stream yields Err to try_fold.
OnStreamErrContinue(r) == r
OnStreamErr(r) == "lookup_error"

NoHist ==
    [remote |-> 0, remoteOk |-> FALSE, fetched |-> None, populated |-> FALSE,
     before |-> {}, stored |-> FALSE, failed |-> FALSE]

\* The decklists read: up to MaxLines lines.  Which future completes first
\* does not follow the order of the lines, so the lists are taken with
\* their lines in the order of Lines.
Decklists ==
    {d \in UNION {[1..n -> LineIds] : n \in 0..MaxLines} :
        \A i \in 1..(Len(d) - 1) : d[i] <= d[i + 1]}

\* cache.json as an earlier run can have left it.
EarlierCache ==
    {[key |-> GoblinMatron, value |-> Unwrap(Resolve(Unwrap(named_fuzzy(GoblinMatron))))]}
InitialFiles == {Absent, Corrupt, Snapshot(EarlierCache)}

InitWith(k) ==
    /\ input \in Decklists
    /\ cap \in 1..MaxCap
    /\ kind = k
    /\ pc = [t \in TaskIds |-> "idle"]
    /\ card = [t \in TaskIds |-> None]
    /\ CACHE = None
    /\ wlock = 0
    /\ canonFile \in InitialFiles
    /\ tmpFile = Absent
    /\ pending = {}
    /\ g = EmptyGraph
    /\ run = "running"
    /\ output = "absent"
    /\ hist = [task |-> [t \in TaskIds |-> NoHist], canon0 |-> canonFile]

\* main.rs:37 instantiates the graph with BirthingPod.
Init == InitWith("BirthingPod")

\* The stream takes the next line and pushes its future.
StartTask(t) ==
    /\ run = "running"
    /\ pc[t] = "idle"
    /\ \A u \in 1..(t - 1) : pc[u] # "idle"
    /\ HasRoom(InFlight, cap)
    /\ pc' = [pc EXCEPT ![t] = "find"]
    /\ hist' = [hist EXCEPT !.task[t].before =
                   {u \in TaskIds : /\ pc[u] = "done"
                                    /\ hist.task[u].populated
                                    /\ Name(u) = Name(t)}]
    /\ UNCHANGED <<input, cap, kind, card, CACHE, wlock, canonFile, tmpFile,
                   pending, g, run, output>>

\* The cell's value for this call of cache(): the loaded map, or the results
\* the load can have when the cell is still unset.
CellResults == IF CACHE = None THEN CacheLoad(canonFile) ELSE {CACHE}

\* fetch_card up to the cache answer: a hit completes the future, whose card
\* goes through the closure and into the fold at once.
FindInCache(t) ==
    /\ run = "running"
    /\ pc[t] = "find"
    /\ \E r \in CellResults :
        /\ r # None => wlock = 0
        /\ CACHE' = r
        /\ LET found == IF r = None THEN None ELSE Get(Unwrap(r), Name(t)) IN
           IF found # None
           THEN /\ pc' = [pc EXCEPT ![t] = "done"]
                /\ g' = TryFold(kind, g, Unwrap(found))
                /\ hist' = [hist EXCEPT !.task[t].fetched = found]
           ELSE /\ pc' = [pc EXCEPT ![t] = "remote"]
                /\ UNCHANGED <<g, hist>>
    /\ UNCHANGED <<input, cap, kind, card, wlock, canonFile, tmpFile, pending,
                   run, output>>

\* named_fuzzy answers with a record: the Card is built, or the code panics.
RemoteLookup(t) ==
    /\ run = "running"
    /\ pc[t] = "remote"
    /\ named_fuzzy(Name(t)) # None
    /\ LET c == Resolve(Unwrap(named_fuzzy(Name(t)))) IN
       IF c = None
       THEN /\ run' = "panicked"
            /\ hist' = [hist EXCEPT !.task[t].remote = @ + 1]
            /\ UNCHANGED <<pc, card>>
       ELSE /\ pc' = [pc EXCEPT ![t] = "store"]
            /\ card' = [card EXCEPT ![t] = c]
            /\ hist' = [hist EXCEPT !.task[t].remote = @ + 1,
                                    !.task[t].remoteOk = TRUE]
            /\ UNCHANGED run
    /\ UNCHANGED <<input, cap, kind, CACHE, wlock, canonFile, tmpFile, pending,
                   g, output>>

\* named_fuzzy fails (not found, or a transient failure): the future yields
\* Err, the stream ends with it and try_fold returns it to main.
RemoteError(t) ==
    /\ run = "running"
    /\ pc[t] = "remote"
    /\ pc' = [pc EXCEPT ![t] = "done"]
    /\ run' = OnStreamErr(run)
    /\ hist' = [hist EXCEPT !.task[t].remote = @ + 1, !.task[t].failed = TRUE]
    /\ UNCHANGED <<input, cap, kind, card, CACHE, wlock, canonFile, tmpFile,
                   pending, g, output>>

\* The future of line t completes with what fetch_card returned.
Complete(t, res) ==
    /\ pc' = [pc EXCEPT ![t] = "done"]
    /\ IF res = None
       THEN /\ run' = OnStreamErr(run)
            /\ g' = g
       ELSE /\ run' = run
            /\ g' = TryFold(kind, g, Unwrap(res))

\* store_in_cache returns and its write guard is dropped: no holder is left.
ReleaseLeaked(holder) == holder
Release(holder) == 0

\* store_in_cache up to File::create: cache(), the write guard, the insert.
StoreInCache(t) ==
    /\ run = "running"
    /\ pc[t] = "store"
    /\ \E r \in CellResults :
        IF r = None
        THEN /\ Complete(t, AfterStoreErr(Unwrap(card[t])))
             /\ hist' = [hist EXCEPT !.task[t].fetched = AfterStoreErr(Unwrap(card[t])),
                                     !.task[t].failed = (AfterStoreErr(Unwrap(card[t])) = None)]
             /\ UNCHANGED <<CACHE, wlock>>
        ELSE /\ wlock = 0
             /\ wlock' = t
             /\ CACHE' = Some(Insert(Unwrap(r),
                                     CacheKey(Name(t), Unwrap(card[t])),
                                     Unwrap(card[t])))
             /\ pc' = [pc EXCEPT ![t] = "create"]
             /\ hist' = [hist EXCEPT !.task[t].populated = TRUE]
             /\ UNCHANGED <<g, run>>
    /\ UNCHANGED <<input, cap, kind, card, canonFile, tmpFile, pending, output>>

\* File::create(CACHE_PATH_TMP) and write_all: the file is created empty
\* and the serialized map is handed to the blocking pool; write_all returns
\* without waiting for the write, and nothing flushes the file.
StoreCreate(t) ==
    /\ run = "running"
    /\ pc[t] = "create"
    /\ \E ok \in BOOLEAN :
        IF ok
        THEN /\ tmpFile' = Partial
             /\ pending' = pending \cup {[path |-> "tmp", map |-> Unwrap(CACHE)]}
             /\ pc' = [pc EXCEPT ![t] = "rename"]
             /\ UNCHANGED <<wlock, g, run, hist>>
        ELSE /\ wlock' = Release(t)
             /\ Complete(t, AfterStoreErr(Unwrap(card[t])))
             /\ hist' = [hist EXCEPT !.task[t].fetched = AfterStoreErr(Unwrap(card[t])),
                                     !.task[t].failed = (AfterStoreErr(Unwrap(card[t])) = None)]
             /\ UNCHANGED <<tmpFile, pending>>
    /\ UNCHANGED <<input, cap, kind, card, CACHE, canonFile, output>>

\* rename(CACHE_PATH_TMP, CACHE_PATH), the guard dropped on return.  The
\* file renamed is the one the pending write goes to.
StoreRename(t) ==
    /\ run = "running"
    /\ pc[t] = "rename"
    /\ wlock' = Release(t)
    /\ \E ok \in BOOLEAN :
        IF ok
        THEN /\ canonFile' = tmpFile
             /\ tmpFile' = Absent
             /\ pending' = {[path |-> "canon", map |-> p.map] :
                               p \in {q \in pending : q.path = "tmp"}}
             /\ Complete(t, Some(Unwrap(card[t])))
             /\ hist' = [hist EXCEPT !.task[t].fetched = card[t],
                                     !.task[t].stored = TRUE]
        ELSE /\ Complete(t, AfterStoreErr(Unwrap(card[t])))
             /\ hist' = [hist EXCEPT !.task[t].fetched = AfterStoreErr(Unwrap(card[t])),
                                     !.task[t].failed = (AfterStoreErr(Unwrap(card[t])) = None)]
             /\ UNCHANGED <<canonFile, tmpFile, pending>>
    /\ UNCHANGED <<input, cap, kind, card, CACHE, output>>

\* The blocking pool performs a write handed to it by write_all, or the
\* write fails; no one awaits its result.
BackgroundWrite ==
    /\ \E p \in pending, ok \in BOOLEAN :
        /\ pending' = pending \ {p}
        /\ IF ok /\ p.path = "tmp"
           THEN tmpFile' = Snapshot(p.map) /\ UNCHANGED canonFile
           ELSE IF ok
           THEN canonFile' = Snapshot(p.map) /\ UNCHANGED tmpFile
           ELSE UNCHANGED <<canonFile, tmpFile>>
    /\ UNCHANGED <<input, cap, kind, pc, card, CACHE, wlock, g, run, output, hist>>

\* The stream is exhausted: try_fold returns the graph and to_img creates
\* graph.dot, or fails to.
ToImgCreate ==
    /\ run = "running"
    /\ \A t \in TaskIds : pc[t] = "done"
    /\ \E ok \in BOOLEAN :
        IF ok THEN run' = "render" /\ output' = "partial"
        ELSE run' = "output_error" /\ UNCHANGED output
    /\ UNCHANGED <<input, cap, kind, pc, card, CACHE, wlock, canonFile, tmpFile,
                   pending, g, hist>>

\* to_img writes the document and flushes it, or a write fails.
ToImgWrite ==
    /\ run = "render"
    /\ \E ok \in BOOLEAN :
        IF ok THEN run' = "finished" /\ output' = "complete"
        ELSE run' = "output_error" /\ UNCHANGED output
    /\ UNCHANGED <<input, cap, kind, pc, card, CACHE, wlock, canonFile, tmpFile,
                   pending, g, hist>>

Next ==
    \/ \E t \in TaskIds : StartTask(t)
    \/ \E t \in TaskIds : FindInCache(t)
    \/ \E t \in TaskIds : RemoteLookup(t)
    \/ \E t \in TaskIds : RemoteError(t)
    \/ \E t \in TaskIds : StoreInCache(t)
    \/ \E t \in TaskIds : StoreCreate(t)
    \/ \E t \in TaskIds : StoreRename(t)
    \/ BackgroundWrite
    \/ ToImgCreate
    \/ ToImgWrite

Spec == Init /\ [][Next]_vars

\* The runtime keeps polling: while a future, a queued write or main can
\* take a step, one is taken.  Every remote lookup and file operation is a
\* single step here, so it returns once taken.
FairSpec == Init /\ [][Next]_vars /\ WF_vars(Next)

\* The same program with the graph instantiated with PyreOfHeroes.
InitPyre == InitWith("PyreOfHeroes")
SpecPyre == InitPyre /\ [][Next]_vars

\* ---------------------------------------------------------------- the graph alone
\* PodGraph<K> under either PodKind, fed cards in any order.
GraphTypes == {<<Elf, Druid>>, <<Druid, Elf>>, <<Goblin>>, <<>>}
GraphCards ==
    {[name |-> IF ty = <<>> THEN <<"X">> ELSE ty[1], cmc |-> c, types |-> ty] :
        c \in {0, 1, 2, U8Max}, ty \in GraphTypes}

InitGraph ==
    /\ kind \in PodKinds
    /\ g = EmptyGraph
    /\ input = <<>>
    /\ cap = 1
    /\ pc = <<>>
    /\ card = <<>>
    /\ CACHE = None
    /\ wlock = 0
    /\ canonFile = Absent
    /\ tmpFile = Absent
    /\ pending = {}
    /\ run = "graph"
    /\ output = "absent"
    /\ hist = [task |-> <<>>, canon0 |-> Absent]

InsertCard(c) ==
    /\ Len(g.nodes) < MaxNodes
    /\ g' = add_card(kind, g, c)
    /\ UNCHANGED <<input, cap, kind, pc, card, CACHE, wlock, canonFile, tmpFile,
                   pending, run, output, hist>>

NextGraph == \E c \in GraphCards : InsertCard(c)

SpecGraph == InitGraph /\ [][NextGraph]_vars

\* ------------------------------------------------------------------ rendering
\* `name.contains(s)`: s occurs in name as a contiguous run of characters.
StrContains(name, s) ==
    \E i \in 0..(Len(name) - Len(s)) : SubSeq(name, i + 1, i + Len(s)) = s

Neighbors(gr, n) ==
    {gr.edges[x].to : x \in {y \in 1..Len(gr.edges) : gr.edges[y].from = n}}

\* The nodes a depth-first search discovers, following edges forwards.
RECURSIVE Dfs(_, _, _)
Dfs(gr, stack, discovered) ==
    IF stack = {} THEN discovered
    ELSE LET next == UNION {Neighbors(gr, n) : n \in stack} \ discovered
         IN  Dfs(gr, next, discovered \cup next)

has_path_connectingReversed(gr, from, to) == from \in Dfs(gr, {to}, {to})

has_path_connecting(gr, from, to) == to \in Dfs(gr, {from}, {from})

\* The Vec of node indices, in index order.
nodes_that_can_reach(gr, s) ==
    LET hits == {n \in 1..Len(gr.nodes) : StrContains(gr.nodes[n].name, s)}
    IN  IF hits = {} THEN <<>>
        ELSE LET target == CHOOSE n \in hits : \A o \in hits : n <= o
             IN  SelectSeq([n \in 1..Len(gr.nodes) |-> n],
                           LAMBDA n : has_path_connecting(gr, n, target))

node_is_isolatedFromOnly(gr, index) ==
    \A x \in 1..Len(gr.edges) : index # gr.edges[x].from

node_is_isolated(gr, index) ==
    \A x \in 1..Len(gr.edges) :
        index # gr.edges[x].from /\ index # gr.edges[x].to

VecContains(v, n) == \E i \in 1..Len(v) : v[i] = n

\* The `hi` arm of a node line: `Some(highlight) if highlight.contains(&n)`.
Highlighted(highlight, n) ==
    highlight # None /\ VecContains(Unwrap(highlight), n)

EdgeShownEither(highlight, from, to) ==
    \/ highlight = None
    \/ VecContains(Unwrap(highlight), from) \/ VecContains(Unwrap(highlight), to)

\* The edge loop's `continue` is not taken.
EdgeShown(highlight, from, to) ==
    \/ highlight = None
    \/ VecContains(Unwrap(highlight), from) /\ VecContains(Unwrap(highlight), to)

IsolatedStyle == "style=filled fillcolor=2"
HighlightStyle == "style=filled fillcolor=11"
NoStyle == ""

\* One line of the document; node indices are written 1-based here.
NodeLine(gr, highlight, n) ==
    [tag |-> "node", index |-> n, label |-> gr.nodes[n].name,
     style |-> IF node_is_isolated(gr, n) THEN IsolatedStyle ELSE NoStyle,
     hi |-> IF Highlighted(highlight, n) THEN HighlightStyle ELSE NoStyle]

\* The value of one entry of `subgraphs`: the nodes of a cost, in index order.
Subgraph(gr, cmc) ==
    SelectSeq([n \in 1..Len(gr.nodes) |-> n], LAMBDA n : gr.nodes[n].cmc = cmc)

RECURSIVE NodeLines(_, _, _, _)
NodeLines(gr, highlight, subgraph, i) ==
    IF i > Len(subgraph) THEN <<>>
    ELSE <<NodeLine(gr, highlight, subgraph[i])>>
         \o NodeLines(gr, highlight, subgraph, i + 1)

Cluster(gr, highlight, cmc) ==
    <<[tag |-> "subgraph", cmc |-> cmc]>>
    \o NodeLines(gr, highlight, Subgraph(gr, cmc), 1)
    \o <<[tag |-> "label", cmc |-> cmc], [tag |-> "close"]>>

RECURSIVE Clusters(_, _, _, _)
Clusters(gr, highlight, order, i) ==
    IF i > Len(order) THEN <<>>
    ELSE Cluster(gr, highlight, order[i]) \o Clusters(gr, highlight, order, i + 1)

\* The orders in which iterating the HashMap `subgraphs` can yield its keys:
\* the hasher is seeded afresh for every map, so any order of the costs.
SubgraphKeyOrders(gr) ==
    LET keys == {gr.nodes[n].cmc : n \in 1..Len(gr.nodes)}
    IN  {o \in [1..Cardinality(keys) -> keys] :
            \A i, j \in 1..Cardinality(keys) : o[i] = o[j] => i = j}

\* `link_color` is kept as the labels in the order they were first emitted:
\* a label's colour is its position.
RECURSIVE EdgeLines(_, _, _, _)
EdgeLines(gr, highlight, e, link_color) ==
    IF e > Len(gr.edges) THEN <<>>
    ELSE LET edge == gr.edges[e] IN
         IF ~EdgeShown(highlight, edge.from, edge.to)
         THEN EdgeLines(gr, highlight, e + 1, link_color)
         ELSE LET seen == IF VecContains(link_color, edge.edge) THEN link_color
                          ELSE Append(link_color, edge.edge)
                  color == CHOOSE i \in 1..Len(seen) : seen[i] = edge.edge
              IN  <<[tag |-> "edge", from |-> edge.from, to |-> edge.to,
                     label |-> edge.edge, color |-> color]>>
                  \o EdgeLines(gr, highlight, e + 1, seen)

Document(gr, highlight, order) ==
    <<[tag |-> "digraph"]>>
    \o Clusters(gr, highlight, order, 1)
    \o EdgeLines(gr, highlight, 1, <<>>)
    \o <<[tag |-> "end"]>>

\* The entities and highlight arguments of the rendering runs.
RenderTypes == {<<Goblin>>, <<Elf>>}
RenderCards ==
    {[name |-> ty[1], cmc |-> c, types |-> ty] : c \in {1, 2, 3}, ty \in RenderTypes}
HighlightArgs == {None, Some(<<"l">>), Some(Elf), Some(<<"Z">>)}

NoDocument == <<>>

InitRender ==
    /\ kind \in PodKinds
    /\ g = EmptyGraph
    /\ input = <<>>
    /\ cap = 1
    /\ pc = <<>>
    /\ card = <<>>
    /\ CACHE = None
    /\ wlock = 0
    /\ canonFile = Absent
    /\ tmpFile = Absent
    /\ pending = {}
    /\ run = "graph"
    /\ output = NoDocument
    /\ hist = [task |-> <<>>, canon0 |-> Absent, draw_path_to |-> None,
               highlight |-> None, earlier |-> NoDocument]

AddRenderCard(c) ==
    /\ run = "graph"
    /\ InsertCard(c)

\* to_img on the graph as it stands; a second call takes the same argument
\* and leaves the first document in hist.earlier.
to_img(draw_path_to) ==
    /\ run \in {"graph", "rendered"}
    /\ run = "rendered" => draw_path_to = hist.draw_path_to
    /\ LET highlight == IF draw_path_to = None THEN None
                        ELSE Some(nodes_that_can_reach(g, Unwrap(draw_path_to)))
       IN  /\ \E order \in SubgraphKeyOrders(g) :
                output' = Document(g, highlight, order)
           /\ hist' = [hist EXCEPT !.draw_path_to = draw_path_to,
                                   !.highlight = highlight,
                                   !.earlier = output]
    /\ run' = IF run = "graph" THEN "rendered" ELSE "rendered_again"
    /\ UNCHANGED <<input, cap, kind, pc, card, CACHE, wlock, canonFile, tmpFile,
                   pending, g>>

NextRender ==
    \/ \E c \in RenderCards : AddRenderCard(c)
    \/ \E draw_path_to \in HighlightArgs : to_img(draw_path_to)

SpecRender == InitRender /\ [][NextRender]_vars

\* ------------------------------------------------------ the two conversions
\* card_name_trimmer and cmc_f32_to_u8 called on their own: input is the
\* call, output what it returned.
TrimAlphabet == {"1", "0", " ", "x"}
BirdsLine ==
    <<"2", " ", "B", "i", "r", "d", "s", " ", "o", "f", " ",
      "P", "a", "r", "a", "d", "i", "s", "e">>
SomethingLine ==
    <<"1", "0", "x", " ", "S", "o", "m", "e", "t", "h", "i", "n", "g">>
TrimInputs ==
    UNION {[1..n -> TrimAlphabet] : n \in 0..MaxLen}
        \cup {BirdsLine, SomethingLine, <<" ">> \o LlanowarElves \o <<" ">>}
\* In halves: the values around 0, around U8Max and around U16Max.
CmcInputs ==
    ((-2 * MaxCmc)..(2 * MaxCmc))
        \cup ((2 * U8Max - 1)..(2 * U8Max + 4))
        \cup ((2 * U16Max - 2)..(2 * U16Max + 3))

InitCalls ==
    /\ input \in {[fn |-> "card_name_trimmer", arg |-> s] : s \in TrimInputs}
            \cup {[fn |-> "cmc_f32_to_u8", arg |-> f2] : f2 \in CmcInputs}
    /\ output = None
    /\ run = "call"
    /\ kind = "BirthingPod"
    /\ g = EmptyGraph
    /\ cap = 1
    /\ pc = <<>>
    /\ card = <<>>
    /\ CACHE = None
    /\ wlock = 0
    /\ canonFile = Absent
    /\ tmpFile = Absent
    /\ pending = {}
    /\ hist = [task |-> <<>>, canon0 |-> Absent]

CallTrimmer ==
    /\ run = "call"
    /\ input.fn = "card_name_trimmer"
    /\ output' = card_name_trimmer(input.arg)
    /\ run' = "returned"
    /\ UNCHANGED <<input, cap, kind, pc, card, CACHE, wlock, canonFile, tmpFile,
                   pending, g, hist>>

CallCmc ==
    /\ run = "call"
    /\ input.fn = "cmc_f32_to_u8"
    /\ \E overflow_checks \in BOOLEAN :
        IF AddOverflows(input.arg) /\ overflow_checks
        THEN run' = "panicked" /\ output' = None
        ELSE run' = "returned" /\ output' = cmc_f32_to_u8(input.arg)
    /\ UNCHANGED <<input, cap, kind, pc, card, CACHE, wlock, canonFile, tmpFile,
                   pending, g, hist>>

NextCalls == CallTrimmer \/ CallCmc

SpecCalls == InitCalls /\ [][NextCalls]_vars

\* ---------------------------------------------------------------- properties
NodeIds == 1..Len(g.nodes)
Edges(gr, a, b) ==
    {i \in 1..Len(gr.edges) : gr.edges[i].from = a /\ gr.edges[i].to = b}
CountEdges(gr, a, b) == Cardinality(Edges(gr, a, b))
SharedTags(a, b) ==
    {a.types[i] : i \in 1..Len(a.types)} \cap {b.types[i] : i \in 1..Len(b.types)}

\* C7.  Under BirthingPod, for every node e and every node inserted after it
\* (new): there is exactly one edge e -> new if new.cost = e.cost + 1 and
\* none otherwise, and exactly one edge new -> e if new.cost = e.cost - 1
\* and none otherwise; so none either way when the costs are equal or
\* differ by two or more.
C7_BirthingPodPolicy ==
    kind = "BirthingPod" =>
        \A i \in NodeIds, j \in NodeIds :
            i < j =>
                LET e == g.nodes[i]
                    new == g.nodes[j]
                IN  /\ CountEdges(g, i, j) = (IF new.cmc = e.cmc + 1 THEN 1 ELSE 0)
                    /\ CountEdges(g, j, i) = (IF new.cmc = e.cmc - 1 THEN 1 ELSE 0)

C7_Witness ==
    /\ kind = "BirthingPod"
    /\ \E i \in NodeIds, j \in NodeIds :
        i < j /\ g.nodes[j].cmc = g.nodes[i].cmc + 1 /\ CountEdges(g, i, j) = 1
    /\ \E i \in NodeIds, j \in NodeIds :
        i < j /\ g.nodes[j].cmc = g.nodes[i].cmc - 1 /\ CountEdges(g, j, i) = 1
    /\ \E i \in NodeIds, j \in NodeIds :
        /\ i < j
        /\ g.nodes[j].cmc - g.nodes[i].cmc \notin {-1, 0, 1}
        /\ CountEdges(g, i, j) + CountEdges(g, j, i) = 0

\* C8.  Under PyreOfHeroes, for every node e and every node inserted after
\* it (new): there is a link between them iff their costs differ by exactly
\* one and they share a type tag; it is a single edge, e -> new when new
\* costs one more and new -> e when new costs one less; and its label is
\* the first tag of new's type sequence that is also a tag of e.
C8_PyreOfHeroesPolicy ==
    kind = "PyreOfHeroes" =>
        \A i \in NodeIds, j \in NodeIds :
            i < j =>
                LET e == g.nodes[i]
                    new == g.nodes[j]
                    shared == SharedTags(new, e)
                    up == new.cmc = e.cmc + 1 /\ shared # {}
                    down == new.cmc = e.cmc - 1 /\ shared # {}
                IN  /\ CountEdges(g, i, j) = (IF up THEN 1 ELSE 0)
                    /\ CountEdges(g, j, i) = (IF down THEN 1 ELSE 0)
                    /\ \A x \in Edges(g, i, j) \cup Edges(g, j, i) :
                        /\ g.edges[x].edge \in shared
                        /\ \E n \in 1..Len(new.types) :
                            /\ new.types[n] = g.edges[x].edge
                            /\ \A m \in 1..(n - 1) : new.types[m] \notin shared

C8_Witness ==
    /\ kind = "PyreOfHeroes"
    /\ \E i \in NodeIds, j \in NodeIds :
        /\ i < j
        /\ g.nodes[j].cmc = g.nodes[i].cmc + 1
        /\ Cardinality(SharedTags(g.nodes[i], g.nodes[j])) = 2
        /\ CountEdges(g, i, j) = 1
    /\ \E i \in NodeIds, j \in NodeIds :
        /\ i < j
        /\ g.nodes[j].cmc = g.nodes[i].cmc - 1
        /\ SharedTags(g.nodes[i], g.nodes[j]) = {}
        /\ g.nodes[i].types # <<>> /\ g.nodes[j].types # <<>>

\* The links between nodes a and b of gr, as source entity, target entity
\* and label.
PairLinks(gr, a, b) ==
    {[src |-> gr.nodes[gr.edges[x].from], dst |-> gr.nodes[gr.edges[x].to],
      edge |-> gr.edges[x].edge] : x \in Edges(gr, a, b) \cup Edges(gr, b, a)}
Unlabelled(links) == {[src |-> l.src, dst |-> l.dst] : l \in links}
\* The graph of the cards of nodes i and j alone, inserted j's first.
Reversed(i, j) ==
    add_card(kind, add_card(kind, EmptyGraph, g.nodes[j]), g.nodes[i])

\* C10, as claimed.  For any two nodes of any graph, the link between them
\* is the link the other insertion order gives: present or absent alike,
\* with the same source entity, target entity and label.
C10_SameLinkEitherOrder ==
    \A i \in NodeIds, j \in NodeIds :
        i < j =>
            /\ PairLinks(g, i, j) = PairLinks(Reversed(i, j), 1, 2)
            /\ CountEdges(g, i, j) + CountEdges(g, j, i) =
                   CountEdges(Reversed(i, j), 1, 2) + CountEdges(Reversed(i, j), 2, 1)

\* C10, amended.  For any two nodes of any graph, the other insertion order
\* gives a link between the same source and target entity, present or absent
\* alike; the label is the same under BirthingPod, and under PyreOfHeroes
\* it is in both orders a tag the two entities share, the same one whenever
\* they share no more than one tag.
C10_SameEndpointsEitherOrder ==
    \A i \in NodeIds, j \in NodeIds :
        i < j =>
            LET fwd == PairLinks(g, i, j)
                rev == PairLinks(Reversed(i, j), 1, 2)
                shared == SharedTags(g.nodes[i], g.nodes[j])
            IN  /\ Unlabelled(fwd) = Unlabelled(rev)
                /\ CountEdges(g, i, j) + CountEdges(g, j, i) =
                       CountEdges(Reversed(i, j), 1, 2) + CountEdges(Reversed(i, j), 2, 1)
                /\ kind = "PyreOfHeroes" => \A l \in fwd \cup rev : l.edge \in shared
                /\ (kind = "BirthingPod" \/ Cardinality(shared) <= 1) => fwd = rev

C10_Witness ==
    /\ Len(g.nodes) >= 3
    /\ \E i \in NodeIds, j \in NodeIds :
        /\ i < j
        /\ PairLinks(g, i, j) # {}
        /\ PairLinks(g, i, j) # PairLinks(Reversed(i, j), 1, 2)
        /\ Unlabelled(PairLinks(g, i, j)) = Unlabelled(PairLinks(Reversed(i, j), 1, 2))

H(t) == hist.task[t]

\* C1.  A resolution of a name begun after an earlier resolution of the
\* same name completed with the name put in the cache calls named_fuzzy
\* not once, and returns the Card the earlier one returned.
C1_CacheHitNoRemote ==
    \A t \in TaskIds : \A s \in H(t).before :
        /\ H(t).remote = 0
        /\ pc[t] \notin {"remote", "store", "create", "rename"}
        /\ pc[t] = "done" => (H(t).fetched # None /\ H(t).fetched = H(s).fetched)

C1_Witness ==
    \E t \in TaskIds : \E s \in H(t).before :
        /\ pc[t] = "done"
        /\ H(s).remote = 1
        /\ H(t).remote = 0
        /\ H(t).fetched = H(s).fetched
        /\ Unwrap(H(t).fetched).name # Name(t)

\* C2, as claimed.  The canonical cache file is at every moment what it was
\* before the run, or a whole serialized map holding the entry of a
\* store_in_cache that renamed; never a part of one.
C2_CanonicalNeverPartial ==
    \/ canonFile = hist.canon0
    \/ /\ canonFile.st = "snapshot"
       /\ \E t \in TaskIds :
            /\ H(t).stored
            /\ Get(canonFile.map, Name(t)) = H(t).fetched

\* C3.  The futures held by try_buffer_unordered never number more than the
\* parallelism it was given.
C3_InFlightAtMostCap == InFlight <= cap

C3_Witness ==
    /\ InFlight = cap
    /\ \E t \in TaskIds : pc[t] = "idle"

\* A failed resolution has ended the run with the lookup error and no
\* graph.dot; graph.dot exists only if every line resolved without error.
FailedMeansLookupError ==
    /\ (\E t \in TaskIds : H(t).failed) => (run = "lookup_error" /\ output = "absent")
    /\ output # "absent" => \A t \in TaskIds : pc[t] = "done" /\ ~H(t).failed

\* C4.  A resolution that fails ends the run with the lookup error; from
\* then on the graph gets no card, no future moves and the run stays
\* failed; and graph.dot is written only after every line resolved without
\* error.
C4_FailFast ==
    /\ []FailedMeansLookupError
    /\ [][run = "lookup_error" =>
            (g' = g /\ run' = run /\ output' = output /\ pc' = pc)]_vars

C4_Witness ==
    /\ run = "lookup_error"
    /\ Len(g.nodes) >= 1
    /\ \E t \in TaskIds : H(t).failed
    /\ output = "absent"

\* C5.  A resolution whose remote lookup gave a record with a whole cmc
\* returns the Card built from it, whatever the cache did; only a failed
\* remote lookup makes a resolution, and the run, fail with a lookup error.
C5_OnlyRemoteErrorsSurface ==
    /\ \A t \in TaskIds :
        /\ (H(t).remoteOk /\ pc[t] = "done") =>
              (H(t).fetched = card[t] /\ card[t] # None /\ ~H(t).failed)
        /\ H(t).failed => (~H(t).remoteOk /\ H(t).remote = 1)
    /\ run = "lookup_error" => \E t \in TaskIds : H(t).failed /\ ~H(t).remoteOk

C5_Witness ==
    /\ \E t \in TaskIds :
        /\ H(t).remoteOk
        /\ pc[t] = "done"
        /\ H(t).fetched = card[t]
        /\ ~H(t).populated
    /\ \E t \in TaskIds :
        /\ H(t).remoteOk
        /\ pc[t] = "done"
        /\ H(t).populated
        /\ ~H(t).stored
    /\ run = "running"

\* C6, as claimed.  Once store_in_cache calls for different names have all
\* returned Ok, the map in memory holds every entry stored and the canonical
\* file holds exactly that map.
C6_NoLostUpdate ==
    LET stored == {t \in TaskIds : H(t).stored} IN
    (/\ \A t \in TaskIds : pc[t] = "done" /\ (H(t).populated => H(t).stored)
     /\ \E t \in stored, u \in stored : Name(t) # Name(u))
    => /\ CACHE # None
       /\ \A t \in stored : Get(Unwrap(CACHE), Name(t)) = H(t).fetched
       /\ canonFile = Snapshot(Unwrap(CACHE))

\* The run of the decklist "1 Goblin Matron", "1 Goblin Chieftain" has
\* delivered both cards to the fold.
BothGoblinsFolded ==
    /\ input = <<1, 2>>
    /\ \A t \in TaskIds : pc[t] = "done" /\ ~H(t).failed

GoblinEdge(label) ==
    /\ Len(g.nodes) = 2
    /\ Len(g.edges) = 1
    /\ g.nodes[g.edges[1].from].name = GoblinMatron
    /\ g.nodes[g.edges[1].to].name = GoblinChieftain
    /\ {g.nodes[1].name, g.nodes[2].name} = {GoblinMatron, GoblinChieftain}
    /\ \A n \in 1..2 : g.nodes[n].types = <<Creature, Goblin>>
    /\ g.nodes[g.edges[1].from].cmc = 2
    /\ g.nodes[g.edges[1].to].cmc = 3
    /\ g.edges[1].edge = label

\* C9, as claimed.  Under PyreOfHeroes that decklist yields, whichever card
\* completes first, two nodes and the single edge Matron -> Chieftain,
\* labelled Goblin.
C9_GoblinEdgeLabelledGoblin == BothGoblinsFolded => GoblinEdge(Goblin)

\* C9, amended.  Under PyreOfHeroes that decklist yields, whichever card
\* completes first, two nodes and the single edge Matron -> Chieftain,
\* labelled Creature: the first tag of [Creature, Goblin] the two share.
C9_GoblinEdgeLabelledCreature == BothGoblinsFolded => GoblinEdge(Creature)

C9_Witness ==
    /\ BothGoblinsFolded
    /\ run = "finished"
    /\ g.nodes[1].name = GoblinChieftain
    /\ g.edges = <<[from |-> 2, to |-> 1, edge |-> Creature]>>

\* C11.  Every add_card adds exactly one node, at the end; the nodes and
\* edges there were keep their index, endpoints and label; and every edge
\* added joins the new node and a node that was there before.
C11_AddCardFrame ==
    [][g' # g =>
        LET old == Len(g.nodes)
            new == old + 1
        IN  /\ Len(g'.nodes) = new
            /\ SubSeq(g'.nodes, 1, old) = g.nodes
            /\ Len(g'.edges) >= Len(g.edges)
            /\ SubSeq(g'.edges, 1, Len(g.edges)) = g.edges
            /\ \A x \in (Len(g.edges) + 1)..Len(g'.edges) :
                \/ g'.edges[x].from = new /\ g'.edges[x].to \in 1..old
                \/ g'.edges[x].to = new /\ g'.edges[x].from \in 1..old]_vars

C11_Witness ==
    /\ Len(g.nodes) = 3
    /\ Len(g.edges) >= 2
    /\ \E x \in 1..Len(g.edges) : g.edges[x].from = 3 /\ g.edges[x].to = 2
    /\ \E x \in 1..Len(g.edges) : g.edges[x].from = 1 /\ g.edges[x].to = 2

Rendered == run \in {"rendered", "rendered_again"}
Elements(v) == {v[i] : i \in 1..Len(v)}
\* The nodes with a path of zero or more edges into S, found backwards.
RECURSIVE Ancestors(_, _)
Ancestors(gr, S) ==
    LET more == {gr.edges[x].from :
                    x \in {y \in 1..Len(gr.edges) : gr.edges[y].to \in S}} \ S
    IN  IF more = {} THEN S ELSE Ancestors(gr, S \cup more)

\* C12.  nodes_that_can_reach(s) is empty when no node's name contains s;
\* otherwise, with the target the first node in insertion order whose name
\* contains s, it is exactly the nodes with a directed path of zero or more
\* edges to the target: it has the target, and is the target alone when no
\* edge enters the target.
C12_NodesThatCanReach ==
    (Rendered /\ hist.draw_path_to # None) =>
        LET s == Unwrap(hist.draw_path_to)
            result == Unwrap(hist.highlight)
            hits == {n \in NodeIds : StrContains(g.nodes[n].name, s)}
        IN  IF hits = {} THEN result = <<>>
            ELSE LET target == CHOOSE n \in hits : \A o \in hits : n <= o
                 IN  /\ Elements(result) = Ancestors(g, {target})
                     /\ Len(result) = Cardinality(Elements(result))
                     /\ target \in Elements(result)
                     /\ (\A x \in 1..Len(g.edges) : g.edges[x].to # target)
                            => Elements(result) = {target}

C12_Witness ==
    /\ run = "rendered"
    /\ hist.draw_path_to = Some(Elf)
    /\ Len(g.nodes) = 3
    /\ g.nodes[1].name = Goblin
    /\ g.nodes[2].name = Elf
    /\ g.nodes[3].name = Elf
    /\ hist.highlight = Some(<<1, 2>>)
    /\ \E x \in 1..Len(g.edges) : g.edges[x].from = 2 /\ g.edges[x].to = 3

NodeLinesOf(doc) == {i \in 1..Len(doc) : doc[i].tag = "node"}
Incident(gr, n) ==
    {x \in 1..Len(gr.edges) : gr.edges[x].from = n \/ gr.edges[x].to = n}

\* C16.  In the rendered document every node has one node line, and the line
\* carries the isolated-style directive exactly when no edge of the full
\* graph touches the node, with or without highlighting and whether or not
\* the line also carries the highlight directive.
C16_IsolatedStyleIffNoIncidentEdge ==
    Rendered =>
        /\ \A n \in NodeIds :
            Cardinality({i \in NodeLinesOf(output) : output[i].index = n}) = 1
        /\ \A i \in NodeLinesOf(output) :
            (output[i].style = IsolatedStyle) <=> (Incident(g, output[i].index) = {})

C16_Witness ==
    /\ run = "rendered"
    /\ hist.draw_path_to = Some(Elf)
    /\ Len(g.edges) = 1
    /\ \E i, j \in NodeLinesOf(output) :
        /\ output[i].style = IsolatedStyle /\ output[i].hi = HighlightStyle
        /\ output[j].style = NoStyle /\ output[j].hi = NoStyle

EmittedEdges(doc) ==
    LET lines == SelectSeq(doc, LAMBDA l : l.tag = "edge")
    IN  [i \in 1..Len(lines) |->
            [from |-> lines[i].from, to |-> lines[i].to, edge |-> lines[i].label]]

\* C17.  With no highlight target the edge lines of the document are the
\* edges of the graph, each once; with a highlight target they are the edges
\* with both endpoints among nodes_that_can_reach of that target, each once,
\* so none when the target matches no node.
C17_EdgeEmission ==
    Rendered =>
        IF hist.draw_path_to = None THEN EmittedEdges(output) = g.edges
        ELSE LET set == Elements(nodes_that_can_reach(g, Unwrap(hist.draw_path_to)))
             IN  /\ EmittedEdges(output)
                        = SelectSeq(g.edges, LAMBDA e : e.from \in set /\ e.to \in set)
                 /\ set = {} => EmittedEdges(output) = <<>>

C17_Witness ==
    /\ run = "rendered"
    /\ hist.draw_path_to = Some(Elf)
    /\ Len(g.edges) = 2
    /\ Len(EmittedEdges(output)) = 1
    /\ EmittedEdges(output)[1].from = 1
    /\ EmittedEdges(output)[1].to = 2

\* C18.  Rendering is deterministic: a second to_img of the same graph with
\* the same highlight target writes the same document as the first, the
\* per-cost clusters in the same order.
C18_SameDocumentEveryRun ==
    run = "rendered_again" => output = hist.earlier

\* C19.  After any sequence of add_card calls under either policy every
\* edge goes from a node of cost c to a node of cost c + 1; so no edge is a
\* self-loop, no edge closes a directed cycle, and any two nodes have at
\* most one edge between them.
C19_EdgesClimbOneCost ==
    /\ \A x \in 1..Len(g.edges) :
        /\ g.nodes[g.edges[x].to].cmc = g.nodes[g.edges[x].from].cmc + 1
        /\ g.edges[x].from # g.edges[x].to
        /\ g.edges[x].to \notin Ancestors(g, {g.edges[x].from})
    /\ \A a, b \in NodeIds : CountEdges(g, a, b) + CountEdges(g, b, a) <= 1

C19_Witness ==
    /\ Len(g.nodes) = 3
    /\ kind = "PyreOfHeroes"
    /\ g.nodes[1].cmc = 1 /\ g.nodes[2].cmc = 0 /\ g.nodes[3].cmc = 2
    /\ CountEdges(g, 2, 1) = 1
    /\ CountEdges(g, 1, 3) = 1
    /\ Len(g.edges) = 2

RECURSIVE DropDigits(_)
DropDigits(s) ==
    IF s # <<>> /\ Head(s) \in AsciiDigits THEN DropDigits(Tail(s)) ELSE s
Trimmed == run = "returned" /\ input.fn = "card_name_trimmer"

\* C13.  card_name_trimmer returns the input without its surrounding
\* whitespace and without its leading run of decimal digits and the
\* whitespace after that run, and drops no other character: "10x Something"
\* gives "x Something".
C13_TrimmerDropsOnlyDigits ==
    Trimmed => output = TrimStart(DropDigits(Trim(input.arg)))

Converted == run # "call" /\ input.fn = "cmc_f32_to_u8"
Whole(f2) == f2 % 2 = 0

\* C14, as claimed.  cmc_f32_to_u8 rejects exactly the inputs strictly
\* between two consecutive integers and returns the integer equal to the
\* input for every other one, negative inputs and inputs of 256 and more
\* included.
C14_RejectsExactlyFractions ==
    (Converted /\ run = "returned") =>
        output = IF Whole(input.arg) THEN Some(input.arg \div 2) ELSE None

\* C14, amended.  From 0 up to 256 cmc_f32_to_u8 rejects exactly the inputs
\* strictly between two consecutive integers and returns the integer equal
\* to the input otherwise; a negative input gives 0, whole or not; an input
\* from 256 up to 65535 is rejected; an input of 65535 or more is rejected
\* or, where overflow is checked, panics.
C14_ConversionByRange ==
    Converted =>
        LET f2 == input.arg IN
        IF f2 < 0 THEN run = "returned" /\ output = Some(0)
        ELSE IF f2 < 2 * (U8Max + 1)
        THEN /\ run = "returned"
             /\ output = IF Whole(f2) THEN Some(f2 \div 2) ELSE None
        ELSE IF f2 < 2 * U16Max THEN run = "returned" /\ output = None
        ELSE output = None

C14_Witness ==
    /\ Converted
    /\ run = "returned"
    /\ input.arg = -1
    /\ output = Some(0)

\* The lines whose resolution gave the stream a card.
Resolved == {t \in TaskIds : pc[t] = "done" /\ H(t).fetched # None}
Fetched(t) == Unwrap(H(t).fetched)
\* The types after the first dash, all of them when there is no dash.
RECURSIVE AfterFirstDash(_, _)
AfterFirstDash(types, rest) ==
    IF rest = <<>> THEN types
    ELSE IF Head(rest) = Dash THEN Tail(rest)
    ELSE AfterFirstDash(types, Tail(rest))
Emitted(t) ==
    [name |-> Fetched(t).name, cmc |-> Fetched(t).cmc,
     types |-> AfterFirstDash(Fetched(t).types, Fetched(t).types)]
Creatures == {t \in Resolved : Creature \in Elements(Fetched(t).types)}

\* C15.  The pipeline emits a resolved card exactly when its types contain
\* "Creature": the nodes of the graph are the emitted cards, one node for
\* each, with the name and the cost as resolved and with the types after
\* the first dash, or all the types when there is no dash.
C15_EmitsCreaturesDashDrained ==
    /\ Len(g.nodes) = Cardinality(Creatures)
    /\ \A t \in Creatures :
        Cardinality({n \in NodeIds : g.nodes[n] = Emitted(t)})
            = Cardinality({u \in Creatures : Emitted(u) = Emitted(t)})

C15_Witness ==
    /\ input = <<3, 4>>
    /\ Resolved = {1, 2}
    /\ Fetched(1).types = <<Creature, Dash, Elf, Druid>>
    /\ Fetched(2).name = LightningBolt
    /\ g.nodes = <<[name |-> LlanowarElves, cmc |-> 1, types |-> <<Elf, Druid>>]>>

Terminated == run \in {"finished", "lookup_error", "output_error", "panicked"}
\* Line t's resolution is at find_in_cache or store_in_cache while another
\* resolution holds the write guard.
WaitsOnLock(t) ==
    /\ t \in TaskIds
    /\ run = "running"
    /\ pc[t] \in {"find", "store"}
    /\ wlock # 0

\* C20.  With every remote lookup and file operation returning, the run
\* terminates, with an error or with the graph folded and rendered, and no
\* resolution waits on the cache lock for ever.
C20_RunTerminates ==
    /\ <>Terminated
    /\ \A t \in 1..(MaxLines + 1) : WaitsOnLock(t) ~> ~WaitsOnLock(t)

C20_Witness ==
    /\ run = "finished"
    /\ cap = 2
    /\ output = "complete"
    /\ Len(input) = 2
    /\ \A t \in TaskIds : H(t).stored
    /\ Len(g.nodes) = 2
====
